---- MODULE Spec2Model ----
(***************************************************************************)
(* State-machine model of the Flask/MySQL event-booking application in     *)
(* src/app.py: the users, events and bookings tables, the Flask-Login      *)
(* session of each browser, and one action per request handler.  Each      *)
(* handler runs to completion (one request, one commit), so every action   *)
(* is the whole handler, the admin_required / login_required gate in front *)
(* of it included.                                                         *)
(*                                                                         *)
(* Text is modelled as a sequence of tokens: the price fields are          *)
(* sequences of characters (so that float() is a real parse), the other    *)
(* fields are sequences of words, with " " standing for white space.  A    *)
(* form field is [key, text]: key = FALSE is a field the request does not  *)
(* carry.  Money is in hundredths.                                         *)
(***************************************************************************)
EXTENDS Integers, Sequences, FiniteSets, TLC

VARIABLES
    users,        \* table users, in insertion order
    events,       \* table events, in insertion order
    nextEventId,  \* AUTO_INCREMENT counter of events
    bookings,     \* table bookings, in insertion order
    session,      \* per browser: the user id Flask-Login keeps in the cookie, 0 = none
    response,     \* what the last request returned
    tieOrder,     \* the order in which the server returns rows that ORDER BY leaves equal
    inflight      \* per server thread: the register request it is in the middle of

vars == <<users, events, nextEventId, bookings, session, response, tieOrder, inflight>>

(***************************************************************************)
(* Bounds and input sets                                                   *)
(***************************************************************************)
MaxBookings == 2
MaxEventId == 1
MaxPricedBookings == 1

Clients == {"c1"}

W(word) == <<word>>
Field(text) == [key |-> TRUE, text |-> text]
Absent == [key |-> FALSE, text |-> <<>>]

UsernameForms ==
    { Field(<<>>), Field(W("admin")), Field(W("alice")), Field(<<" ", "alice", " ">>) }
PasswordForms == { Field(<<>>), Field(W("pw1")) }
LoginNames == { W("admin"), W("alice"), W("bob") }
LoginPasswords == { W("pw1"), W("adminpass") }
Salts == {"salt"}

(***************************************************************************)
(* werkzeug.security                                                       *)
(***************************************************************************)
generate_password_hash(password, salt) ==
    [method |-> "pbkdf2:sha256", salt |-> salt, digest |-> <<"H", salt, password>>]

check_password_hash(pwhash, password) ==
    pwhash.digest = <<"H", pwhash.salt, password>>

(***************************************************************************)
(* Python str helpers                                                      *)
(***************************************************************************)
IsSpace(tok) == tok \in {" "}

RECURSIVE lstrip(_)
lstrip(s) == IF s # <<>> /\ IsSpace(Head(s)) THEN lstrip(Tail(s)) ELSE s

RECURSIVE rstrip(_)
rstrip(s) ==
    IF s # <<>> /\ IsSpace(s[Len(s)]) THEN rstrip(SubSeq(s, 1, Len(s) - 1)) ELSE s

strip(s) == rstrip(lstrip(s))

\* Python truthiness of request.form.get(key): None and '' are falsy
Falsy(f) == ~f.key \/ f.text = <<>>

(***************************************************************************)
(* Responses                                                               *)
(***************************************************************************)
NoFlash == [msg |-> "", category |-> ""]
Flash(msg, category) == [msg |-> msg, category |-> category]

Resp(op, c, fl, target, bid, st, rows) ==
    [op |-> op, client |-> c, flash |-> fl, target |-> target,
     booking_id |-> bid, new_status |-> st, rows |-> rows]

Reply(op, c, fl, target) == Resp(op, c, fl, target, 0, <<>>, <<>>)

(***************************************************************************)
(* Flask-Login                                                             *)
(***************************************************************************)
AnonymousUser == [id |-> 0, username |-> <<>>, role |-> "", is_authenticated |-> FALSE]

load_user(user_id) ==
    IF \E i \in 1..Len(users) : users[i].id = user_id
    THEN LET u == users[CHOOSE i \in 1..Len(users) : users[i].id = user_id]
         IN [id |-> u.id, username |-> u.username, role |-> u.role,
             is_authenticated |-> TRUE]
    ELSE AnonymousUser

current_user(c) == IF session[c] = 0 THEN AnonymousUser ELSE load_user(session[c])

Unauthorized(op, c) ==
    Reply(op, c, Flash("Please log in to access this page.", "warning"), "redirect:login")

AccessDenied(op, c) ==
    Reply(op, c, Flash("Access denied. Administrator privileges required.", "danger"),
          "redirect:login")

admin_required_AnyUser(c) == current_user(c).is_authenticated

admin_required(c) == current_user(c).is_authenticated /\ current_user(c).role = "admin"

(***************************************************************************)
(* init_db: CREATE TABLE IF NOT EXISTS keeps the rows; the admin is seeded *)
(* only when no row has role 'admin'.                                      *)
(***************************************************************************)
AdminRow(id, salt) ==
    [id |-> id, username |-> W("admin"),
     password_hash |-> generate_password_hash(W("adminpass"), salt), role |-> "admin"]

SeedAdmin_Always(table, salt) == Append(table, AdminRow(Len(table) + 1, salt))

SeedAdmin(table, salt) ==
    IF \E i \in 1..Len(table) : table[i].role = "admin"
    THEN table
    ELSE Append(table, AdminRow(Len(table) + 1, salt))

\* MySQL returns rows with equal ORDER BY values in an order of its own, the
\* same one every time the same query runs over the same rows
TieOrders == {"id ASC", "id DESC"}

Workers == {"w1", "w2"}

Idle == [pc |-> "idle", client |-> CHOOSE c \in Clients : TRUE,
         username |-> <<>>, password |-> <<>>]

Start ==
    /\ \E salt \in Salts : users = SeedAdmin(<<>>, salt)
    /\ events = <<>>
    /\ nextEventId = 1
    /\ bookings = <<>>
    /\ session = [c \in Clients |-> 0]
    /\ response = Reply("start", CHOOSE c \in Clients : TRUE, NoFlash, "")
    /\ inflight = [w \in Workers |-> Idle]

\* no handler of Spec, SpecPricing, SpecCatalog or SpecRace sorts rows that can
\* be equal, so the tie order is left at one value there
Init == Start /\ tieOrder = "id ASC"

InitListing == Start /\ tieOrder \in TieOrders

\* the application is restarted: the module-level init_db() runs again
init_db ==
    /\ \E salt \in Salts : users' = SeedAdmin(users, salt)
    /\ response' = Reply("init_db", response.client, NoFlash, "")
    /\ UNCHANGED <<events, nextEventId, bookings, session, tieOrder, inflight>>

(***************************************************************************)
(* register (POST)                                                         *)
(***************************************************************************)
UsernameTaken(username) == \E i \in 1..Len(users) : users[i].username = username

UserRow(id, username, password, salt) ==
    [id |-> id, username |-> username,
     password_hash |-> generate_password_hash(password, salt), role |-> "user"]

RegisterResult_RawLookup(c, uf, pf, salt) ==
    LET username == strip(uf.text)
        password == pf.text
    IN  IF current_user(c).is_authenticated
        THEN [users |-> users, resp |-> Reply("register", c, NoFlash, "redirect:index")]
        ELSE IF username = <<>> \/ password = <<>>
        THEN [users |-> users,
              resp |-> Reply("register", c,
                             Flash("Both username and password are required.", "danger"),
                             "redirect:register")]
        ELSE IF UsernameTaken(uf.text)
        THEN [users |-> users,
              resp |-> Reply("register", c,
                             Flash("That username is already taken. Please choose another.",
                                   "danger"),
                             "redirect:register")]
        ELSE [users |-> Append(users, UserRow(Len(users) + 1, username, password, salt)),
              resp |-> Reply("register", c,
                             Flash("Registration successful! You can now log in.", "success"),
                             "redirect:login")]

RegisterResult(c, uf, pf, salt) ==
    LET username == strip(uf.text)
        password == pf.text
    IN  IF current_user(c).is_authenticated
        THEN [users |-> users, resp |-> Reply("register", c, NoFlash, "redirect:index")]
        ELSE IF username = <<>> \/ password = <<>>
        THEN [users |-> users,
              resp |-> Reply("register", c,
                             Flash("Both username and password are required.", "danger"),
                             "redirect:register")]
        ELSE IF UsernameTaken(username)
        THEN [users |-> users,
              resp |-> Reply("register", c,
                             Flash("That username is already taken. Please choose another.",
                                   "danger"),
                             "redirect:register")]
        ELSE [users |-> Append(users, UserRow(Len(users) + 1, username, password, salt)),
              resp |-> Reply("register", c,
                             Flash("Registration successful! You can now log in.", "success"),
                             "redirect:login")]

register(c) ==
    \E uf \in UsernameForms, pf \in PasswordForms, salt \in Salts :
        /\ users' = RegisterResult(c, uf, pf, salt).users
        /\ response' = RegisterResult(c, uf, pf, salt).resp
        /\ UNCHANGED <<events, nextEventId, bookings, session, tieOrder, inflight>>

(***************************************************************************)
(* register (POST) as the server's workers run it: the SELECT of lines     *)
(* 181-182 and the INSERT of lines 191-195 are two statements, and another *)
(* worker's statements may run between them.  The users table declares     *)
(* username UNIQUE, so the INSERT of a username already stored raises an    *)
(* IntegrityError, which the handler's except Exception catches.           *)
(***************************************************************************)
Checked(c, username, password) ==
    [pc |-> "checked", client |-> c, username |-> username, password |-> password]

InsertUser_NoUnique(table, username, password, salt) ==
    [ok |-> TRUE,
     users |-> Append(table, UserRow(Len(table) + 1, username, password, salt))]

InsertUser(table, username, password, salt) ==
    IF \E i \in 1..Len(table) : table[i].username = username
    THEN [ok |-> FALSE, users |-> table]
    ELSE [ok |-> TRUE,
          users |-> Append(table, UserRow(Len(table) + 1, username, password, salt))]

register_select(w, c, Names) ==
    /\ inflight[w].pc = "idle"
    /\ \E uf \in Names, pf \in PasswordForms :
        LET username == strip(uf.text)
            password == pf.text
        IN  IF current_user(c).is_authenticated
            THEN /\ response' = Reply("register", c, NoFlash, "redirect:index")
                 /\ UNCHANGED inflight
            ELSE IF username = <<>> \/ password = <<>>
            THEN /\ response' = Reply("register", c,
                                      Flash("Both username and password are required.",
                                            "danger"),
                                      "redirect:register")
                 /\ UNCHANGED inflight
            ELSE IF UsernameTaken(username)
            THEN /\ response' = Reply("register", c,
                                      Flash("That username is already taken. Please choose another.",
                                            "danger"),
                                      "redirect:register")
                 /\ UNCHANGED inflight
            ELSE /\ inflight' = [inflight EXCEPT ![w] = Checked(c, username, password)]
                 /\ UNCHANGED response
    /\ UNCHANGED <<users, events, nextEventId, bookings, session, tieOrder>>

register_insert(w) ==
    /\ inflight[w].pc = "checked"
    /\ \E salt \in Salts :
        LET ins == InsertUser(users, inflight[w].username, inflight[w].password, salt)
        IN  /\ users' = ins.users
            /\ response' =
                 IF ins.ok
                 THEN Reply("register", inflight[w].client,
                            Flash("Registration successful! You can now log in.", "success"),
                            "redirect:login")
                 ELSE Reply("register", inflight[w].client,
                            Flash("An error occurred during registration. Check MySQL connection.",
                                  "danger"),
                            "redirect:register")
    /\ inflight' = [inflight EXCEPT ![w] = Idle]
    /\ UNCHANGED <<events, nextEventId, bookings, session, tieOrder>>

(***************************************************************************)
(* login (POST) and logout                                                 *)
(***************************************************************************)
LoginResult_UserEnum(c, username, password) ==
    LET cur == current_user(c)
        hit == { i \in 1..Len(users) : users[i].username = username }
        user_data == users[CHOOSE i \in hit : TRUE]
    IN  IF cur.is_authenticated
        THEN [session |-> session[c],
              resp |-> Reply("login", c, NoFlash,
                             IF cur.role = "admin" THEN "redirect:admin_dashboard"
                             ELSE "redirect:index")]
        ELSE IF hit = {}
        THEN [session |-> session[c],
              resp |-> Reply("login", c, Flash("Unknown username.", "danger"),
                             "render:login.html")]
        ELSE IF check_password_hash(user_data.password_hash, password)
        THEN [session |-> user_data.id,
              resp |-> Reply("login", c, Flash("Login successful!", "success"),
                             IF load_user(user_data.id).role = "admin"
                             THEN "redirect:admin_dashboard"
                             ELSE "redirect:index")]
        ELSE [session |-> session[c],
              resp |-> Reply("login", c, Flash("Invalid username or password.", "danger"),
                             "render:login.html")]

LoginResult(c, username, password) ==
    LET cur == current_user(c)
        hit == { i \in 1..Len(users) : users[i].username = username }
        user_data == users[CHOOSE i \in hit : TRUE]
    IN  IF cur.is_authenticated
        THEN [session |-> session[c],
              resp |-> Reply("login", c, NoFlash,
                             IF cur.role = "admin" THEN "redirect:admin_dashboard"
                             ELSE "redirect:index")]
        ELSE IF hit # {} /\ check_password_hash(user_data.password_hash, password)
        THEN [session |-> user_data.id,
              resp |-> Reply("login", c, Flash("Login successful!", "success"),
                             IF load_user(user_data.id).role = "admin"
                             THEN "redirect:admin_dashboard"
                             ELSE "redirect:index")]
        ELSE [session |-> session[c],
              resp |-> Reply("login", c, Flash("Invalid username or password.", "danger"),
                             "render:login.html")]

login(c) ==
    \E username \in LoginNames, password \in LoginPasswords :
        /\ session' = [session EXCEPT ![c] = LoginResult(c, username, password).session]
        /\ response' = LoginResult(c, username, password).resp
        /\ UNCHANGED <<users, events, nextEventId, bookings, tieOrder, inflight>>

logout(c) ==
    /\ IF current_user(c).is_authenticated
       THEN /\ session' = [session EXCEPT ![c] = 0]
            /\ response' = Reply("logout", c, Flash("You have been logged out.", "info"),
                                 "redirect:login")
       ELSE /\ session' = session
            /\ response' = Unauthorized("logout", c)
    /\ UNCHANGED <<users, events, nextEventId, bookings, tieOrder, inflight>>

(***************************************************************************)
(* float(): optional white space, optional sign, digits with an optional   *)
(* fraction.  The result is in hundredths, the scale of DECIMAL(10, 2);    *)
(* the inputs carry at most two fractional digits, so the sum of two       *)
(* parsed amounts is exact.  A Python value is [t, s, n]: a str s or an    *)
(* int n.                                                                  *)
(***************************************************************************)
PyStr(s) == [t |-> "str", s |-> s, n |-> 0]
PyInt(n) == [t |-> "int", s |-> <<>>, n |-> n]

DigitChars == <<"0", "1", "2", "3", "4", "5", "6", "7", "8", "9">>
IsDigit(ch) == \E d \in 1..Len(DigitChars) : DigitChars[d] = ch
DigitVal(ch) == (CHOOSE d \in 1..Len(DigitChars) : DigitChars[d] = ch) - 1
AllDigits(s) == \A i \in 1..Len(s) : IsDigit(s[i])

RECURSIVE DigitsVal(_)
DigitsVal(s) ==
    IF s = <<>> THEN 0
    ELSE 10 * DigitsVal(SubSeq(s, 1, Len(s) - 1)) + DigitVal(s[Len(s)])

ValueError == [ok |-> FALSE, val |-> 0]

ParseFloat(text) ==
    LET t == strip(text)
        signed == t # <<>> /\ Head(t) \in {"+", "-"}
        body == IF signed THEN Tail(t) ELSE t
        dots == { i \in 1..Len(body) : body[i] = "." }
        dot == IF dots = {} THEN Len(body) + 1 ELSE CHOOSE i \in dots : TRUE
        ip == SubSeq(body, 1, dot - 1)
        fp == SubSeq(body, dot + 1, Len(body))
        cents == IF Len(fp) = 0 THEN 0
                 ELSE IF Len(fp) = 1 THEN 10 * DigitVal(fp[1])
                 ELSE 10 * DigitVal(fp[1]) + DigitVal(fp[2])
        mag == 100 * DigitsVal(ip) + cents
    IN  IF Cardinality(dots) <= 1 /\ AllDigits(ip) /\ AllDigits(fp)
           /\ (ip # <<>> \/ fp # <<>>)
        THEN [ok |-> TRUE, val |-> IF signed /\ Head(t) = "-" THEN 0 - mag ELSE mag]
        ELSE ValueError

float(v) == IF v.t = "int" THEN [ok |-> TRUE, val |-> 100 * v.n] ELSE ParseFloat(v.s)

Money(units) == 100 * units

(***************************************************************************)
(* A DECIMAL(10, 2) column given a Python value.  A text that is no number *)
(* is refused when the server's sql_mode is strict and stored as 0.00      *)
(* otherwise; the application does not set the mode.                       *)
(***************************************************************************)
DecimalColumn(v, strict) ==
    IF float(v).ok THEN [ok |-> TRUE, val |-> float(v).val]
    ELSE IF strict THEN [ok |-> FALSE, val |-> 0]
    ELSE [ok |-> TRUE, val |-> 0]

(***************************************************************************)
(* booking (POST)                                                          *)
(***************************************************************************)
Pending == W("Pending")
Approved == W("Approved")
Rejected == W("Rejected")

BookingForm(et, pkg, bp, at) ==
    [event_type |-> et, event_package |-> pkg,
     base_price_hidden |-> bp, addon_total_hidden |-> at]

TotalEstimated_BaseOnly(base_price, addon_total) ==
    IF float(base_price).ok /\ float(addon_total).ok
    THEN float(base_price).val
    ELSE 0

TotalEstimated(base_price, addon_total) ==
    IF float(base_price).ok /\ float(addon_total).ok
    THEN float(base_price).val + float(addon_total).val
    ELSE 0

BookingRow(id, user_id, form, base, addon, total) ==
    [id |-> id, user_id |-> user_id,
     event_type |-> form.event_type.text, event_package |-> form.event_package.text,
     base_price |-> base, addon_total |-> addon, total_estimated |-> total,
     status |-> Pending]

BookingResult(c, form, strict) ==
    LET user_id == current_user(c).id
        base_price == IF form.base_price_hidden.key
                      THEN PyStr(form.base_price_hidden.text) ELSE PyInt(0)
        addon_total == IF form.addon_total_hidden.key
                       THEN PyStr(form.addon_total_hidden.text) ELSE PyInt(0)
        total_estimated == TotalEstimated(base_price, addon_total)
        base_col == DecimalColumn(base_price, strict)
        addon_col == DecimalColumn(addon_total, strict)
    IN  IF ~current_user(c).is_authenticated
        THEN [bookings |-> bookings, resp |-> Unauthorized("booking", c)]
        ELSE IF Falsy(form.event_type) \/ Falsy(form.event_package)
        THEN [bookings |-> bookings,
              resp |-> Reply("booking", c,
                             Flash("Please select a valid event type and a planning package.",
                                   "danger"),
                             "redirect:booking")]
        ELSE IF ~base_col.ok \/ ~addon_col.ok
        THEN [bookings |-> bookings,
              resp |-> Reply("booking", c,
                             Flash("An error occurred during submission to MySQL.", "danger"),
                             "redirect:booking")]
        ELSE [bookings |-> Append(bookings,
                                  BookingRow(Len(bookings) + 1, user_id, form,
                                             base_col.val, addon_col.val, total_estimated)),
              resp |-> Reply("booking", c,
                             Flash("Your booking request has been submitted successfully!",
                                   "success"),
                             "redirect:index")]

booking(c, Forms, cap) ==
    \E form \in Forms, strict \in BOOLEAN :
        /\ Len(BookingResult(c, form, strict).bookings) <= cap
        /\ bookings' = BookingResult(c, form, strict).bookings
        /\ response' = BookingResult(c, form, strict).resp
        /\ UNCHANGED <<users, events, nextEventId, session, tieOrder, inflight>>

(***************************************************************************)
(* admin_bookings: bookings JOIN users ORDER BY CASE status WHEN 'Pending' *)
(* THEN 1 ELSE 2 END, id DESC                                              *)
(***************************************************************************)
StatusRank(status) == IF status = Pending THEN 1 ELSE 2

AdminBookingsBefore_NewestFirst(a, b) == a.id > b.id

AdminBookingsBefore(a, b) ==
    \/ StatusRank(a.status) < StatusRank(b.status)
    \/ StatusRank(a.status) = StatusRank(b.status) /\ a.id > b.id

RECURSIVE AdminBookingsOrder(_)
AdminBookingsOrder(rows) ==
    IF rows = {} THEN <<>>
    ELSE LET first == CHOOSE a \in rows :
                          \A b \in rows \ {a} : AdminBookingsBefore(a, b)
         IN  <<first>> \o AdminBookingsOrder(rows \ {first})

AdminBookingsRow(b, u) ==
    [id |-> b.id, event_type |-> b.event_type, event_package |-> b.event_package,
     base_price |-> b.base_price, addon_total |-> b.addon_total,
     total_estimated |-> b.total_estimated, status |-> b.status,
     client_username |-> u.username]

AdminBookingsQuery ==
    AdminBookingsOrder(
        { AdminBookingsRow(bookings[i], users[j]) :
            <<i, j>> \in { p \in (1..Len(bookings)) \X (1..Len(users)) :
                             bookings[p[1]].user_id = users[p[2]].id } })

admin_bookings(c) ==
    /\ response' = IF admin_required(c)
                   THEN Resp("admin_bookings", c, NoFlash, "render:admin_bookings.html",
                             0, <<>>, AdminBookingsQuery)
                   ELSE AccessDenied("admin_bookings", c)
    /\ UNCHANGED <<users, events, nextEventId, bookings, session, tieOrder, inflight>>

(***************************************************************************)
(* update_booking_status (POST)                                            *)
(***************************************************************************)
valid_statuses_Confirmed == {Pending, Approved, Rejected, W("Confirmed")}

valid_statuses == {Pending, Approved, Rejected}

UpdateStatus_NoCommit(table, booking_id, new_status) == table

UpdateStatus_NoWhere(table, booking_id, new_status) ==
    [i \in 1..Len(table) |-> [table[i] EXCEPT !.status = new_status]]

UpdateStatus(table, booking_id, new_status) ==
    [i \in 1..Len(table) |->
        IF table[i].id = booking_id THEN [table[i] EXCEPT !.status = new_status]
        ELSE table[i]]

UpdateBookingStatusResult(c, booking_id, sf) ==
    IF ~admin_required(c)
    THEN [bookings |-> bookings, resp |-> AccessDenied("update_booking_status", c)]
    ELSE IF ~(sf.key /\ sf.text \in valid_statuses)
    THEN [bookings |-> bookings,
          resp |-> Resp("update_booking_status", c,
                        Flash("Invalid status provided.", "danger"),
                        "redirect:admin_bookings", booking_id, <<>>, <<>>)]
    ELSE [bookings |-> UpdateStatus(bookings, booking_id, sf.text),
          resp |-> Resp("update_booking_status", c,
                        Flash("Booking {booking_id} status updated to {new_status}.",
                              "success"),
                        "redirect:admin_bookings", booking_id, sf.text, <<>>)]

StatusForms == { Absent, Field(Pending), Field(Approved), Field(Rejected),
                 Field(W("Confirmed")) }

update_booking_status(c) ==
    \E booking_id \in 1..(MaxBookings + 1), sf \in StatusForms :
        /\ bookings' = UpdateBookingStatusResult(c, booking_id, sf).bookings
        /\ response' = UpdateBookingStatusResult(c, booking_id, sf).resp
        /\ UNCHANGED <<users, events, nextEventId, session, tieOrder, inflight>>

(***************************************************************************)
(* add_event and delete_event (POST)                                       *)
(***************************************************************************)
EventForm(title, date, time, location, price) ==
    [event_title |-> title, event_date |-> date, event_time |-> time,
     event_location |-> location, event_price |-> price]

EventRow(id, form, price) ==
    [id |-> id, title |-> form.event_title, date |-> form.event_date,
     time |-> form.event_time, location |-> form.event_location, price |-> price]

AddEventResult(c, form) ==
    LET price_str == IF form.event_price.key THEN form.event_price.text
                     ELSE <<"0", ".", "0", "0">>
        price == float(PyStr(price_str))
        same == [events |-> events, nextEventId |-> nextEventId]
    IN  IF ~admin_required(c)
        THEN [db |-> same, resp |-> AccessDenied("add_event", c)]
        ELSE IF ~price.ok
        THEN [db |-> same,
              resp |-> Reply("add_event", c,
                             Flash("Invalid price format for event cost.", "danger"),
                             "redirect:admin_dashboard")]
        ELSE IF form.event_title = <<>> \/ form.event_date = <<>>
                \/ form.event_time = <<>> \/ form.event_location = <<>>
        THEN [db |-> same,
              resp |-> Reply("add_event", c, Flash("Missing required fields", "danger"),
                             "redirect:admin_dashboard")]
        ELSE [db |-> [events |-> Append(events, EventRow(nextEventId, form, price.val)),
                      nextEventId |-> nextEventId + 1],
              resp |-> Reply("add_event", c, Flash("Event added successfully!", "success"),
                             "redirect:admin_dashboard")]

add_event(c, Forms, cap) ==
    \E form \in Forms :
        /\ AddEventResult(c, form).db.nextEventId <= cap + 1
        /\ events' = AddEventResult(c, form).db.events
        /\ nextEventId' = AddEventResult(c, form).db.nextEventId
        /\ response' = AddEventResult(c, form).resp
        /\ UNCHANGED <<users, bookings, session, tieOrder, inflight>>

DeleteEvent(table, event_id) ==
    SelectSeq(table, LAMBDA e : e.id # event_id)

delete_event(c, cap) ==
    \E event_id \in 1..(cap + 1) :
        /\ IF admin_required(c)
           THEN /\ events' = DeleteEvent(events, event_id)
                /\ response' = Reply("delete_event", c,
                                     Flash("Event deleted successfully!", "success"),
                                     "redirect:admin_dashboard")
           ELSE /\ events' = events
                /\ response' = AccessDenied("delete_event", c)
        /\ UNCHANGED <<users, nextEventId, bookings, session, tieOrder, inflight>>

(***************************************************************************)
(* edit_event (POST)                                                       *)
(***************************************************************************)
EditForm(title, date, time, location, price) ==
    [title |-> title, date |-> date, time |-> time, location |-> location,
     price |-> price]

get_event_by_id(event_id) == { i \in 1..Len(events) : events[i].id = event_id }

UpdateEvent(table, event_id, form, price) ==
    [i \in 1..Len(table) |->
        IF table[i].id = event_id
        THEN [id |-> event_id, title |-> form.title, date |-> form.date,
              time |-> form.time, location |-> form.location, price |-> price]
        ELSE table[i]]

EditEventResult(c, event_id, form) ==
    LET price_str == IF form.price.key THEN form.price.text ELSE <<"0", ".", "0", "0">>
        price == float(PyStr(price_str))
    IN  IF ~admin_required(c)
        THEN [events |-> events, resp |-> AccessDenied("edit_event", c)]
        ELSE IF get_event_by_id(event_id) = {}
        THEN [events |-> events,
              resp |-> Reply("edit_event", c,
                             Flash("Event not found or database connection failed.",
                                   "danger"),
                             "redirect:index")]
        ELSE IF ~price.ok
        THEN [events |-> events,
              resp |-> Reply("edit_event", c,
                             Flash("Invalid price format for event cost.", "danger"),
                             "redirect:edit_event")]
        ELSE IF form.title = <<>> \/ form.date = <<>> \/ form.location = <<>>
        THEN [events |-> events,
              resp |-> Reply("edit_event", c, Flash("Missing required fields.", "danger"),
                             "redirect:edit_event")]
        ELSE [events |-> UpdateEvent(events, event_id, form, price.val),
              resp |-> Reply("edit_event", c, Flash("Event updated successfully!", "success"),
                             "redirect:admin_dashboard")]

edit_event(c, Forms, cap) ==
    \E event_id \in 1..(cap + 1), form \in Forms :
        /\ events' = EditEventResult(c, event_id, form).events
        /\ response' = EditEventResult(c, event_id, form).resp
        /\ UNCHANGED <<users, nextEventId, bookings, session, tieOrder, inflight>>

(***************************************************************************)
(* index and admin_dashboard: SELECT ... FROM events ORDER BY date ASC,    *)
(* time ASC.  date and time are VARCHAR columns, compared as strings.  Of  *)
(* admin_dashboard the events table is modelled; its counts and its ten    *)
(* newest bookings are read-only as well.                                  *)
(***************************************************************************)
Collation == <<"-", "0", "1", "2", "3", "4", "5", "6", "7", "8", "9", ":">>

CharRank(ch) == CHOOSE i \in 1..Len(Collation) : Collation[i] = ch

RECURSIVE TextLess(_, _)
TextLess(a, b) ==
    IF b = <<>> THEN FALSE
    ELSE IF a = <<>> THEN TRUE
    ELSE IF Head(a) = Head(b) THEN TextLess(Tail(a), Tail(b))
    ELSE CharRank(Head(a)) < CharRank(Head(b))

TieBefore(a, b) == IF tieOrder = "id ASC" THEN a.id < b.id ELSE a.id > b.id

EventsBefore_DateOnly(a, b) ==
    \/ TextLess(a.date, b.date)
    \/ a.date = b.date /\ TieBefore(a, b)

EventsBefore(a, b) ==
    \/ TextLess(a.date, b.date)
    \/ a.date = b.date /\ TextLess(a.time, b.time)
    \/ a.date = b.date /\ a.time = b.time /\ TieBefore(a, b)

RECURSIVE EventsOrder(_)
EventsOrder(rows) ==
    IF rows = {} THEN <<>>
    ELSE LET first == CHOOSE a \in rows : \A b \in rows \ {a} : EventsBefore(a, b)
         IN  <<first>> \o EventsOrder(rows \ {first})

EventsQuery == EventsOrder({ events[i] : i \in 1..Len(events) })

index(c) ==
    /\ response' = IF ~current_user(c).is_authenticated THEN Unauthorized("index", c)
                   ELSE IF current_user(c).role = "admin"
                   THEN Reply("index", c, NoFlash, "redirect:admin_dashboard")
                   ELSE Resp("index", c, NoFlash, "render:index.html", 0, <<>>,
                             EventsQuery)
    /\ UNCHANGED <<users, events, nextEventId, bookings, session, tieOrder, inflight>>

admin_dashboard(c) ==
    /\ response' = IF admin_required(c)
                   THEN Resp("admin_dashboard", c, NoFlash, "render:admin_dashboard.html",
                             0, <<>>, EventsQuery)
                   ELSE AccessDenied("admin_dashboard", c)
    /\ UNCHANGED <<users, events, nextEventId, bookings, session, tieOrder, inflight>>

(***************************************************************************)
(* The requests the model draws                                            *)
(***************************************************************************)
EventTypeForms == { Absent, Field(W("Wedding")) }
PackageForms == { Field(<<>>), Field(W("Gold")) }

BookingForms ==
    { BookingForm(et, pkg, Field(<<"5", "0", "0">>), Field(<<"7", "5">>)) :
        et \in EventTypeForms, pkg \in PackageForms }

EventForms ==
    { EventForm(title, W("2025-06-01"), W("18:00"), W("Hall"), price) :
        title \in { <<>>, W("Gala") },
        price \in { Absent, Field(<<"a", "b", "c">>) } }

PriceForms ==
    { Absent, Field(<<>>), Field(<<"a", "b", "c">>), Field(<<"1", "0", "0">>),
      Field(<<"5", "0">>) }

PricingForms ==
    { BookingForm(et, Field(W("Gold")), bp, at) :
        et \in EventTypeForms, bp \in PriceForms, at \in PriceForms }

Next ==
    \/ init_db
    \/ \E c \in Clients : register(c)
    \/ \E c \in Clients : login(c)
    \/ \E c \in Clients : logout(c)
    \/ \E c \in Clients : booking(c, BookingForms, MaxBookings)
    \/ \E c \in Clients : admin_bookings(c)
    \/ \E c \in Clients : update_booking_status(c)
    \/ \E c \in Clients : add_event(c, EventForms, MaxEventId)
    \/ \E c \in Clients : delete_event(c, MaxEventId)

Spec == Init /\ [][Next]_vars

(***************************************************************************)
(* The booking form with every kind of submitted price; the handlers that  *)
(* leave the price columns alone are left out.                             *)
(***************************************************************************)
NextPricing ==
    \/ init_db
    \/ \E c \in Clients : register(c)
    \/ \E c \in Clients : login(c)
    \/ \E c \in Clients : logout(c)
    \/ \E c \in Clients : booking(c, PricingForms, MaxPricedBookings)

SpecPricing == Init /\ [][NextPricing]_vars

(***************************************************************************)
(* The event forms with every kind of blank field and price                *)
(***************************************************************************)
MaxCatalogEventId == 1

EventPriceForms ==
    { Absent, Field(<<"a", "b", "c">>), Field(<<"-", "5">>), Field(<<"1", "0">>) }

CatalogForms ==
    { EventForm(title, date, time, location, price) :
        title \in { <<>>, W("Gala") }, date \in { <<>>, W("2025-06-01") },
        time \in { <<>>, W("18:00") }, location \in { <<>>, W("Hall") },
        price \in EventPriceForms }

CatalogEditForms ==
    { EditForm(title, date, time, location, price) :
        title \in { <<>>, W("Ball") }, date \in { <<>>, W("2025-06-01") },
        time \in { <<>>, W("18:00") }, location \in { <<>>, W("Hall") },
        price \in EventPriceForms }

NextCatalog ==
    \/ \E c \in Clients : register(c)
    \/ \E c \in Clients : login(c)
    \/ \E c \in Clients : logout(c)
    \/ \E c \in Clients : add_event(c, CatalogForms, MaxCatalogEventId)
    \/ \E c \in Clients : edit_event(c, CatalogEditForms, MaxCatalogEventId)
    \/ \E c \in Clients : delete_event(c, MaxCatalogEventId)

SpecCatalog == Init /\ [][NextCatalog]_vars

(***************************************************************************)
(* The event listings over events of several dates and times               *)
(***************************************************************************)
MaxListedEventId == 2

ListingDates ==
    { <<"2", "0", "2", "5", "-", "0", "6", "-", "0", "1">>,
      <<"2", "0", "2", "5", "-", "1", "0", "-", "0", "1">> }
ListingTimes == { <<"0", "9", ":", "0", "0">>, <<"1", "8", ":", "0", "0">> }

ListingForms ==
    { EventForm(W("Gala"), date, time, W("Hall"), Absent) :
        date \in ListingDates, time \in ListingTimes }

NextListing ==
    \/ \E c \in Clients : register(c)
    \/ \E c \in Clients : login(c)
    \/ \E c \in Clients : logout(c)
    \/ \E c \in Clients : add_event(c, ListingForms, MaxListedEventId)
    \/ \E c \in Clients : delete_event(c, MaxListedEventId)
    \/ \E c \in Clients : index(c)
    \/ \E c \in Clients : admin_dashboard(c)

SpecListing == InitListing /\ [][NextListing]_vars

(***************************************************************************)
(* Registration under two workers of the hosting server                    *)
(***************************************************************************)
RaceUsernameForms ==
    { Field(<<>>), Field(W("admin")), Field(W("alice")), Field(<<" ", "alice", " ">>),
      Field(W("bob")) }

NextRace ==
    \/ init_db
    \/ \E w \in Workers, c \in Clients : register_select(w, c, RaceUsernameForms)
    \/ \E w \in Workers : register_insert(w)
    \/ \E c \in Clients : login(c)
    \/ \E c \in Clients : logout(c)

SpecRace == Init /\ [][NextRace]_vars

(***************************************************************************)
(* listForAccount of the specification (section 4.3): the bookings owned   *)
(* by one account.  No handler of src/app.py implements it.                *)
(***************************************************************************)
ListForAccount(accountId) == SelectSeq(bookings, LAMBDA b : b.user_id = accountId)

(***************************************************************************)
(* Vocabulary of the properties                                            *)
(***************************************************************************)
AccessDeniedMsg == "Access denied. Administrator privileges required."
UsernameTakenMsg == "That username is already taken. Please choose another."
InvalidCredentialsMsg == "Invalid username or password."

\* the account behind the request of browser c, read from the table
CallerRole(c) ==
    IF \E i \in 1..Len(users) : users[i].id = session[c]
    THEN users[CHOOSE i \in 1..Len(users) : users[i].id = session[c]].role
    ELSE "anonymous"

AdminOnlyWrites == {"add_event", "delete_event", "update_booking_status"}

NumericField(f) == f.key /\ ParseFloat(f.text).ok
Amount(f) == ParseFloat(f.text).val

\* this step is the booking handler answering form, sent by browser c
SubmitStep(c, form, strict) ==
    /\ bookings' = BookingResult(c, form, strict).bookings
    /\ response' = BookingResult(c, form, strict).resp

\* this step is the register handler answering (uf, pf), sent by browser c
RegisterStep(c, uf, pf, salt) ==
    /\ users' = RegisterResult(c, uf, pf, salt).users
    /\ response' = RegisterResult(c, uf, pf, salt).resp

Present(username) == \E i \in 1..Len(users) : users[i].username = username

Admins == { i \in 1..Len(users) : users[i].role = "admin" }

\* C1: a request to add_event, delete_event or update_booking_status made by a
\* caller who is anonymous or whose role is not admin is answered with the
\* "Access denied" flash and a redirect, and leaves events and bookings as
\* they were.
C1_NonAdminDenied ==
    [][ \A c \in Clients :
          (response'.client = c /\ response'.op \in AdminOnlyWrites
             /\ CallerRole(c) # "admin")
          => /\ response'.flash = Flash(AccessDeniedMsg, "danger")
             /\ response'.target = "redirect:login"
             /\ UNCHANGED <<events, nextEventId, bookings>> ]_vars

\* a logged-in non-admin has just been refused a status change while a booking
\* and an event exist
C1_Witness ==
    /\ response.op = "update_booking_status"
    /\ response.flash.msg = AccessDeniedMsg
    /\ CallerRole(response.client) = "user"
    /\ Len(bookings) > 0
    /\ Len(events) > 0

\* C2: once a booking's status is Approved or Rejected, no step changes that
\* booking's status (the only transitions are Pending -> Approved and
\* Pending -> Rejected).
C2_TerminalStatus ==
    [][ \A i \in 1..Len(bookings) :
          bookings[i].status \in {Approved, Rejected}
          => /\ i <= Len(bookings')
             /\ bookings'[i].status = bookings[i].status ]_vars

\* C3: a successful submission whose base_price_hidden and addon_total_hidden
\* are both numbers, with event type and package chosen, stores a booking whose
\* total_estimated is their sum and whose status is Pending; 100 and 50 give 150.
C3_TotalIsSum ==
    [][ \A c \in Clients, form \in PricingForms, strict \in BOOLEAN :
          (/\ response'.op = "booking"
           /\ response'.flash.category = "success"
           /\ NumericField(form.base_price_hidden)
           /\ NumericField(form.addon_total_hidden)
           /\ ~Falsy(form.event_type) /\ ~Falsy(form.event_package)
           /\ SubmitStep(c, form, strict))
          => /\ Len(bookings') = Len(bookings) + 1
             /\ LET b == bookings'[Len(bookings')]
                IN  /\ b.total_estimated
                         = Amount(form.base_price_hidden) + Amount(form.addon_total_hidden)
                    /\ b.status = Pending
                    /\ (/\ form.base_price_hidden.text = <<"1", "0", "0">>
                        /\ form.addon_total_hidden.text = <<"5", "0">>)
                       => b.total_estimated = Money(150) ]_vars

\* the booking of 100 + 50 has just been stored
C3_Witness ==
    /\ response.op = "booking"
    /\ response.flash.category = "success"
    /\ Len(bookings) > 0
    /\ bookings[Len(bookings)].base_price = Money(100)
    /\ bookings[Len(bookings)].addon_total = Money(50)
    /\ bookings[Len(bookings)].total_estimated = Money(150)
    /\ bookings[Len(bookings)].status = Pending

\* C4: a submission by a logged-in caller whose base_price_hidden is sent but is
\* no number, whose addon_total_hidden is a number, with event type and package
\* chosen, succeeds and stores a booking whose total is addon_total alone.
C4_ZeroSubstitution ==
    [][ \A c \in Clients, form \in PricingForms, strict \in BOOLEAN :
          (/\ response'.op = "booking"
           /\ form.base_price_hidden.key
           /\ ~ParseFloat(form.base_price_hidden.text).ok
           /\ NumericField(form.addon_total_hidden)
           /\ ~Falsy(form.event_type) /\ ~Falsy(form.event_package)
           /\ current_user(c).is_authenticated
           /\ SubmitStep(c, form, strict))
          => /\ response'.flash.category = "success"
             /\ Len(bookings') = Len(bookings) + 1
             /\ bookings'[Len(bookings')].total_estimated
                  = Amount(form.addon_total_hidden) ]_vars

\* C5 as stated: every register request whose username is in the users table
\* is answered "username already taken" and leaves the table as it was.
C5_DuplicateAlwaysReported ==
    [][ \A c \in Clients, uf \in UsernameForms, pf \in PasswordForms, salt \in Salts :
          (/\ response'.op = "register"
           /\ Present(strip(uf.text))
           /\ RegisterStep(c, uf, pf, salt))
          => /\ users' = users
             /\ response'.flash.msg = UsernameTakenMsg ]_vars

\* C5 as amended: every register request whose (stripped) username is in the
\* users table leaves the table as it was; it is answered "username already
\* taken" when the caller is not logged in and the password is not empty.
C5_DuplicateRefused ==
    [][ \A c \in Clients, uf \in UsernameForms, pf \in PasswordForms, salt \in Salts :
          (/\ response'.op = "register"
           /\ Present(strip(uf.text))
           /\ RegisterStep(c, uf, pf, salt))
          => /\ users' = users
             /\ (~current_user(c).is_authenticated /\ pf.text # <<>>)
                => response'.flash.msg = UsernameTakenMsg ]_vars

\* alice exists and a second registration has just been refused as a duplicate
C5_Witness ==
    /\ response.op = "register"
    /\ response.flash.msg = UsernameTakenMsg
    /\ Present(W("alice"))

\* C6: for a caller in any state, a login with a wrong password for an existing
\* username and a login with an unknown username return the same response and
\* leave the caller's session as it was; when the caller is logged out that
\* response is the generic "Invalid username or password." and no session is
\* established.
C6_LoginFailuresAlike ==
    \A c \in Clients, u1 \in LoginNames, u2 \in LoginNames,
       p1 \in LoginPasswords, p2 \in LoginPasswords :
        (/\ \E i \in 1..Len(users) :
                /\ users[i].username = u1
                /\ ~check_password_hash(users[i].password_hash, p1)
         /\ ~Present(u2))
        => /\ LoginResult(c, u1, p1) = LoginResult(c, u2, p2)
           /\ LoginResult(c, u1, p1).session = session[c]
           /\ session[c] = 0
              => /\ LoginResult(c, u1, p1).resp.flash
                      = Flash(InvalidCredentialsMsg, "danger")
                 /\ LoginResult(c, u1, p1).session = 0

\* a login has just failed while a registered account exists, and both a wrong
\* password for alice and an unknown name produce exactly this response
C6_Witness ==
    /\ response.op = "login"
    /\ response.flash.msg = InvalidCredentialsMsg
    /\ Present(W("alice"))
    /\ session[response.client] = 0
    /\ LoginResult(response.client, W("alice"), W("adminpass")).resp = response
    /\ LoginResult(response.client, W("bob"), W("pw1")).resp = response

\* C7: the admin booking listing holds every booking once with its current
\* status, every Pending row before every other row, and inside each of the
\* two groups the rows by descending id.
C7_PendingFirst ==
    (response.op = "admin_bookings" /\ response.target = "render:admin_bookings.html")
    => LET rows == response.rows
       IN  /\ Len(rows) = Len(bookings)
           /\ \A k \in 1..Len(bookings) :
                \E i \in 1..Len(rows) :
                    /\ rows[i].id = bookings[k].id
                    /\ rows[i].status = bookings[k].status
           /\ \A i \in 1..Len(rows), j \in 1..Len(rows) :
                i < j
                => /\ ~(rows[i].status # Pending /\ rows[j].status = Pending)
                   /\ ((rows[i].status = Pending) <=> (rows[j].status = Pending))
                      => rows[i].id > rows[j].id

\* the listing shows an older Pending booking above a newer Approved one
C7_Witness ==
    /\ response.op = "admin_bookings"
    /\ Len(response.rows) = 2
    /\ response.rows[1].status = Pending
    /\ response.rows[2].status = Approved
    /\ response.rows[1].id < response.rows[2].id

\* the booking the end-to-end scenario is about: owned by the account alice/pw1,
\* Wedding, Gold, 500 + 75, and the admin has just set it to Approved
ScenarioBooking(b) ==
    /\ \E i \in 1..Len(users) :
        /\ users[i].id = b.user_id
        /\ users[i].username = W("alice")
        /\ check_password_hash(users[i].password_hash, W("pw1"))
    /\ b.event_type = W("Wedding")
    /\ b.event_package = W("Gold")
    /\ b.base_price = Money(500)
    /\ b.addon_total = Money(75)
    /\ response.op = "update_booking_status"
    /\ response.flash.category = "success"
    /\ response.booking_id = b.id
    /\ response.new_status = Approved

C9_SingleAdmin ==
    /\ [](Cardinality(Admins) = 1)
    /\ [][ /\ Len(users') >= Len(users)
           /\ \A i \in 1..Len(users) : users'[i] = users[i]
           /\ \A i \in (Len(users) + 1)..Len(users') : users'[i].role = "user" ]_vars

\* init_db has just run again on a database that holds a registered account
C9_Witness ==
    /\ response.op = "init_db"
    /\ Len(users) = 2
    /\ Cardinality(Admins) = 1

\* C10: every step keeps every booking, with its id, owner, labels and the
\* three price columns; update_booking_status keeps the number of bookings and
\* every booking whose id is not the one in the request.
C10_BookingFrame ==
    [][ /\ Len(bookings') >= Len(bookings)
        /\ \A i \in 1..Len(bookings) :
             [bookings'[i] EXCEPT !.status = Pending]
               = [bookings[i] EXCEPT !.status = Pending]
        /\ response'.op = "update_booking_status"
           => /\ Len(bookings') = Len(bookings)
              /\ \A i \in 1..Len(bookings) :
                   bookings[i].id # response'.booking_id
                   => bookings'[i] = bookings[i] ]_vars

\* a status change has just reached one of two bookings and not the other
C10_Witness ==
    /\ response.op = "update_booking_status"
    /\ response.flash.category = "success"
    /\ Len(bookings) = 2
    /\ \E i \in 1..2, j \in 1..2 :
        /\ bookings[i].id = response.booking_id
        /\ bookings[i].status = Approved
        /\ bookings[j].id # response.booking_id
        /\ bookings[j].status = Pending

\* this step is update_booking_status answering (booking_id, sf), sent by browser c
UpdateStatusStep(c, booking_id, sf) ==
    LET result == UpdateBookingStatusResult(c, booking_id, sf)
    IN  \* the first two conjuncts follow from the third and are tested first
        /\ response'.booking_id \in {0, booking_id}
        /\ response'.new_status \in {<<>>, sf.text}
        /\ response' = result.resp
        /\ bookings' = result.bookings

C13_NoAdminOwner ==
    \A i \in 1..Len(bookings), j \in 1..Len(users) :
        users[j].id = bookings[i].user_id => users[j].role # "admin"

\* this step is add_event answering form, sent by browser c
AddEventStep(c, form) ==
    /\ events' = AddEventResult(c, form).db.events
    /\ response' = AddEventResult(c, form).resp

\* this step is edit_event answering (event_id, form), sent by browser c
EditEventStep(c, event_id, form) ==
    /\ events' = EditEventResult(c, event_id, form).events
    /\ response' = EditEventResult(c, event_id, form).resp

NonNegativePrice(f) == ~f.key \/ (ParseFloat(f.text).ok /\ ParseFloat(f.text).val >= 0)

\* C12: an admin's add_event or edit_event request with a blank title, date or
\* location, or with a price that is no non-negative number, is answered with
\* a danger flash and leaves the events table as it was; every stored event
\* has a title, a date and a location that are not blank and a price >= 0.
C12_EventsValidated ==
    /\ [](\A i \in 1..Len(events) :
            /\ events[i].title # <<>> /\ events[i].date # <<>>
            /\ events[i].location # <<>>
            /\ events[i].price >= 0)
    /\ [][ \A c \in Clients, form \in CatalogForms :
             (/\ response'.op = "add_event"
              /\ CallerRole(c) = "admin"
              /\ \/ form.event_title = <<>> \/ form.event_date = <<>>
                 \/ form.event_location = <<>> \/ ~NonNegativePrice(form.event_price)
              /\ AddEventStep(c, form))
             => /\ events' = events
                /\ response'.flash.category = "danger" ]_vars
    /\ [][ \A c \in Clients, event_id \in 1..(MaxCatalogEventId + 1),
              form \in CatalogEditForms :
             (/\ response'.op = "edit_event"
              /\ CallerRole(c) = "admin"
              /\ \/ form.title = <<>> \/ form.date = <<>>
                 \/ form.location = <<>> \/ ~NonNegativePrice(form.price)
              /\ EditEventStep(c, event_id, form))
             => /\ events' = events
                /\ response'.flash.category = "danger" ]_vars

IsListing(r) ==
    \/ r.op = "index" /\ r.target = "render:index.html"
    \/ r.op = "admin_dashboard" /\ r.target = "render:admin_dashboard.html"

\* row a sorts strictly after row b by (date, then time)
KeyAfter(a, b) ==
    \/ TextLess(b.date, a.date)
    \/ a.date = b.date /\ TextLess(b.time, a.time)

RegistrationErrorMsg == "An error occurred during registration. Check MySQL connection."

\* C15: no two accounts ever share a username.  When a worker that has passed
\* the existence check runs its INSERT and the username has been stored in the
\* meantime, no account is created and the request ends with the registration
\* error; when the username is still free, exactly that one account is added.
C15_UsernamesUnique ==
    /\ [](\A i \in 1..Len(users), j \in 1..Len(users) :
            users[i].username = users[j].username => i = j)
    /\ [][ \A w \in Workers :
             inflight[w].pc = "checked" /\ inflight'[w].pc = "idle"
             => IF Present(inflight[w].username)
                THEN /\ users' = users
                     /\ response'.flash = Flash(RegistrationErrorMsg, "danger")
                     /\ response'.target = "redirect:register"
                ELSE /\ Len(users') = Len(users) + 1
                     /\ SubSeq(users', 1, Len(users)) = users
                     /\ users'[Len(users')].username = inflight[w].username
                     /\ response'.target = "redirect:login" ]_vars

\* a request that passed the existence check has been refused by the INSERT:
\* the other worker stored the username first
C15_Witness ==
    /\ response.op = "register"
    /\ response.flash = Flash(RegistrationErrorMsg, "danger")
    /\ Present(W("alice"))
    /\ Cardinality({ i \in 1..Len(users) : users[i].username = W("alice") }) = 1
====
